---- MODULE Spec2Model ----
(***************************************************************************)
(* Thermistor mux firmware (src/src/thermistor_Mux.cpp): the main flow     *)
(* setup() / loop() / cal_thermistor() / clear_cal_data(), the interrupt   *)
(* handler IRQ(), the EEPROM image and the selector (mosfet) lines.        *)
(*                                                                         *)
(* A float is modelled by the integer number of 1/Unit steps it holds     *)
(* (Fl(100) is 100.0); the three IEEE-754 special values have reserved    *)
(* codes.  EEPROM.put / EEPROM.get move the four IEEE-754 bytes of the     *)
(* float (little endian, as on the Teensy), EEPROM.write moves one byte.   *)
(***************************************************************************)
EXTENDS Integers, Sequences, FiniteSets, TLC

\* Number of thermistor channels the model scans (the firmware has 32).
NUMBER_OF_THERMISTORS == 2

\* sizeof(float) on the target.
FloatSize == 4

\* Number of scan passes of one acquisition cycle: while (avgCount < 5).
PassCount == 5

\* Value of an erased EEPROM byte.
BlankByte == 255

\* Resolution of the modelled floats: the PassCount - 1 halvings of one
\* cycle are exact on values that are whole numbers.
Unit == 2 ^ (PassCount - 1)

Fl(x) == x * Unit

FloatNaN == 2 ^ 30
FloatPosInf == 2 ^ 30 + 1
FloatNegInf == 2 ^ 30 + 2

IsFinite(f) == f \notin {FloatNaN, FloatPosInf, FloatNegInf}

Channels == 0 .. (NUMBER_OF_THERMISTORS - 1)

\* Addresses of the persisted layout: flag, ref_Low, ref_High, then
\* raw_Low[c], raw_High[c] per channel.
EESize == 1 + FloatSize * (2 + 2 * NUMBER_OF_THERMISTORS)
EEAddrs == 0 .. (EESize - 1)

RefLowAddr == 1
RefHighAddr == RefLowAddr + FloatSize
RawLowAddr(c) == RefHighAddr + FloatSize + 2 * FloatSize * c
RawHighAddr(c) == RawLowAddr(c) + FloatSize

Abs(x) == IF x < 0 THEN -x ELSE x

Log2Floor(m) == CHOOSE e \in 0 .. 29 : 2 ^ e <= m /\ m < 2 ^ (e + 1)

Log2Unit == PassCount - 1

\* The four bytes of a float in memory, least significant first.
FloatBytes(f) ==
  IF f = 0 THEN <<0, 0, 0, 0>>
  ELSE IF f = FloatNaN THEN <<0, 0, 192, 127>>
  ELSE IF f = FloatPosInf THEN <<0, 0, 128, 127>>
  ELSE IF f = FloatNegInf THEN <<0, 0, 128, 255>>
  ELSE
    LET s == IF f < 0 THEN 1 ELSE 0
        m == Abs(f)
        e == Log2Floor(m)
        ex == e - Log2Unit + 127
        mant == IF e <= 23 THEN (m - 2 ^ e) * 2 ^ (23 - e)
                ELSE (m - 2 ^ e) \div 2 ^ (e - 23)
    IN <<mant % 256,
         (mant \div 256) % 256,
         (ex % 2) * 128 + mant \div 65536,
         s * 128 + ex \div 2>>

\* The float four bytes stand for.
BytesFloat(b) ==
  LET s == b[4] \div 128
      ex == (b[4] % 128) * 2 + b[3] \div 128
      mant == (b[3] % 128) * 65536 + b[2] * 256 + b[1]
      sh == ex - 127 - 23 + Log2Unit
      mag == IF sh >= 0 THEN (2 ^ 23 + mant) * 2 ^ sh
             ELSE (2 ^ 23 + mant) \div 2 ^ (-sh)
  IN IF ex = 0 THEN 0
     ELSE IF ex = 255
       THEN (IF mant # 0 THEN FloatNaN
             ELSE IF s = 1 THEN FloatNegInf ELSE FloatPosInf)
     ELSE IF s = 1 THEN -mag ELSE mag

VARIABLES
  pc,                \* position of the main flow
  eeprom,            \* persisted bytes, by address
  calibrated, ref_Low, ref_High, raw_Low, raw_High,
  eeAddr, mosfetRef, irqFlag, setup_successful,
  pins,              \* level of each selector line
  adc,               \* converter: "idle", "busy", "ready" or "stuck"
  adcMode,           \* converter input: "none", "mux" or "internal"
  ref_temp, tempNum, cal_mosfetRef,     \* cal_thermistor arguments and local
  avgCount, thermistor_temp, ADC_internal_temp,   \* loop() locals
  recur_temp, recur_internal,   \* history: the running values by pass index
  published,         \* argument of the last publish_data call
  publishedInternal,
  refsPublished,     \* arguments of publish_refs in this power cycle
  hCmd, hDone, hPrev,    \* history: last command started, completed?, command completed before it
  capLow, capHigh,       \* history: complete captures since the last clear
  snap,                  \* history: calibration state when the flag was set
  torn,                  \* history: the power loss cut a calibration pass half way
  outstanding,           \* history: ready signals raised minus waits released
  scanLog,               \* history: conversions started in this call (-1: internal temperature)
  pubCount,              \* history: publish_data calls of this loop() call
  cal_result,            \* history: what the last cal_thermistor call returned
  eeReads,               \* history: addresses setup() has read
  publishedFrom,         \* history: the running values the last publish was computed from
  calAfterCycle          \* history: cal_thermistor was called with the converter in internal mode

calVars == <<calibrated, ref_Low, ref_High, raw_Low, raw_High>>
calArgs == <<ref_temp, tempNum, cal_mosfetRef>>
loopVars == <<avgCount, thermistor_temp, ADC_internal_temp, recur_temp, recur_internal>>
pubVars == <<published, publishedInternal>>
histCmd == <<hCmd, hDone, hPrev, capLow, capHigh, snap>>
runHist == <<scanLog, pubCount, cal_result, eeReads, publishedFrom, calAfterCycle>>

vars == <<pc, eeprom, calibrated, ref_Low, ref_High, raw_Low, raw_High,
          eeAddr, mosfetRef, irqFlag, setup_successful, pins, adc, adcMode,
          ref_temp, tempNum, cal_mosfetRef, avgCount, thermistor_temp,
          ADC_internal_temp, recur_temp, recur_internal, published,
          publishedInternal, refsPublished,
          hCmd, hDone, hPrev, capLow, capHigh, snap, torn, outstanding,
          scanLog, pubCount, cal_result, eeReads, publishedFrom, calAfterCycle>>

ZeroArray == [c \in Channels |-> 0]

\* The in-memory calibration state as one value.
CalState == [calibrated |-> calibrated, ref_Low |-> ref_Low, ref_High |-> ref_High,
             raw_Low |-> raw_Low, raw_High |-> raw_High]

ZeroCalState == [calibrated |-> FALSE, ref_Low |-> 0, ref_High |-> 0,
                 raw_Low |-> ZeroArray, raw_High |-> ZeroArray]

EEPROM_write(ee, addr, byte) == [ee EXCEPT ![addr] = byte]

EEPROM_put(ee, addr, f) ==
  [a \in EEAddrs |-> IF a >= addr /\ a < addr + FloatSize
                     THEN FloatBytes(f)[a - addr + 1] ELSE ee[a]]

EEPROM_get(ee, addr) == BytesFloat([i \in 1 .. FloatSize |-> ee[addr + i - 1]])

(***************************************************************************)
(* Float arithmetic of loop().                                             *)
(***************************************************************************)
FDiv(a, b) ==
  IF b = 0 THEN (IF a = 0 THEN FloatNaN
                 ELSE IF a > 0 THEN FloatPosInf ELSE FloatNegInf)
  ELSE (a * Unit) \div b

FMul(a, b) == (a * b) \div Unit

FAdd(a, b) == IF IsFinite(a) THEN a + b ELSE a

\* Variant of Mapping: the low reference is not added.
Mapping_NoOffset(t, rl, rh, refl, refh) ==
  FDiv(FMul(t - rl, refh - refl), rh - rl)

\* thermistor_temp[c] = (((t - raw_Low[c]) * (ref_High - ref_Low))
\*                        / (raw_High[c] - raw_Low[c])) + ref_Low
Mapping(t, rl, rh, refl, refh) ==
  FAdd(FDiv(FMul(t - rl, refh - refl), rh - rl), refl)

\* The running value the averaging rule gives after pass p.
Recurrence(p, old, raw) == IF p = 1 THEN raw ELSE (old + raw) \div 2

\* One step of the running value of loop().
RunningUpdate(old, raw) == IF old = 0 THEN raw ELSE (old + raw) \div 2

(***************************************************************************)
(* Initial state: static initialisers, erased EEPROM, lines not driven.    *)
(***************************************************************************)
Init ==
  /\ pc = "setup"
  /\ eeprom = [a \in EEAddrs |-> BlankByte]
  /\ calibrated = FALSE
  /\ ref_Low = 0
  /\ ref_High = 0
  /\ raw_Low = ZeroArray
  /\ raw_High = ZeroArray
  /\ eeAddr = 0
  /\ mosfetRef = 0
  /\ irqFlag = 0
  /\ setup_successful = FALSE
  /\ pins = [c \in Channels |-> "Z"]
  /\ adc = "idle"
  /\ adcMode = "none"
  /\ ref_temp = 0
  /\ tempNum = 0
  /\ cal_mosfetRef = 0
  /\ avgCount = 0
  /\ thermistor_temp = ZeroArray
  /\ ADC_internal_temp = 0
  /\ recur_temp = ZeroArray
  /\ recur_internal = 0
  /\ published = ZeroArray
  /\ publishedInternal = 0
  /\ refsPublished = <<>>
  /\ hCmd = "none"
  /\ hDone = FALSE
  /\ hPrev = "none"
  /\ capLow = FALSE
  /\ capHigh = FALSE
  /\ snap = ZeroCalState
  /\ torn = FALSE
  /\ outstanding = 0
  /\ scanLog = <<>>
  /\ pubCount = 0
  /\ cal_result = "none"
  /\ eeReads = {}
  /\ publishedFrom = ZeroArray
  /\ calAfterCycle = FALSE

(***************************************************************************)
(* Interrupt handler and converter.                                        *)
(***************************************************************************)
IRQ == irqFlag' = 1

\* The conversion started by start_conversion completes and the converter
\* pulls the interrupt line low.
ADC_Done ==
  /\ adc = "busy"
  /\ adc' = "ready"
  /\ IRQ
  /\ outstanding' = outstanding + 1
  /\ UNCHANGED <<pc, eeprom, calVars, eeAddr, mosfetRef, setup_successful, pins,
                 adcMode, calArgs, loopVars, pubVars, refsPublished, histCmd, torn,
                 runHist>>

\* The converter fails: the conversion that was started never completes and
\* no ready interrupt is raised for it.
ADC_Stuck ==
  /\ adc = "busy"
  /\ adc' = "stuck"
  /\ UNCHANGED <<pc, eeprom, calVars, eeAddr, mosfetRef, irqFlag, setup_successful,
                 pins, adcMode, calArgs, loopVars, pubVars, refsPublished,
                 histCmd, torn, outstanding, runHist>>

\* Variant of WaitExit: the wait does not test the flag.
WaitExit_NoTest(from, to) ==
  /\ pc = from
  /\ pc' = to
  /\ outstanding' = outstanding - 1
  /\ UNCHANGED <<eeprom, calVars, eeAddr, mosfetRef, irqFlag, setup_successful,
                 pins, adc, adcMode, calArgs, loopVars, pubVars, refsPublished,
                 histCmd, torn, runHist>>

\* while (irqFlag == 0) { delay(1); }
WaitExit(from, to) ==
  /\ pc = from
  /\ irqFlag # 0
  /\ pc' = to
  /\ outstanding' = outstanding - 1
  /\ UNCHANGED <<eeprom, calVars, eeAddr, mosfetRef, irqFlag, setup_successful,
                 pins, adc, adcMode, calArgs, loopVars, pubVars, refsPublished,
                 histCmd, torn, runHist>>

\* Variant of ClearFlag: the flag is not cleared after the wait.
ClearFlag_Omitted(from, to) ==
  /\ pc = from
  /\ pc' = to
  /\ UNCHANGED <<eeprom, calVars, eeAddr, mosfetRef, irqFlag, setup_successful,
                 pins, adc, adcMode, calArgs, loopVars, pubVars, refsPublished,
                 histCmd, torn, runHist, outstanding>>

\* irqFlag = 0;
ClearFlag(from, to) ==
  /\ pc = from
  /\ irqFlag' = 0
  /\ pc' = to
  /\ UNCHANGED <<eeprom, calVars, eeAddr, mosfetRef, setup_successful, pins, adc,
                 adcMode, calArgs, loopVars, pubVars, refsPublished, histCmd,
                 torn, runHist, outstanding>>

\* digitalWrite(mosfet[c], HIGH)
Select(p, c) == [p EXCEPT ![c] = "HIGH"]

\* Variant of Deselect: the line is left as it is.
Deselect_Missing(p, c) == p

\* digitalWrite(mosfet[c], LOW)
Deselect(p, c) == [p EXCEPT ![c] = "LOW"]

\* read_ADCDATA(): the result of the last conversion, one of the values S.
read_ADCDATA(S) == S

(***************************************************************************)
(* setup()                                                                 *)
(***************************************************************************)
\* Number of iterations of while (eeAddr_last < 64): the literal is twice
\* the channel count.
SetupLoadCount == NUMBER_OF_THERMISTORS

\* Variant of Load_ref_Low: the slot of ref_High is read instead.
Load_ref_Low_HighSlot(ee) == EEPROM_get(ee, 1 + FloatSize)

Load_ref_Low(ee) == EEPROM_get(ee, 1)
Load_ref_High(ee) == EEPROM_get(ee, 1 + FloatSize)
Load_raw_Low(ee, c) == EEPROM_get(ee, 1 + 2 * FloatSize + 2 * FloatSize * c)
\* Variant of Load_raw_High: the slot of raw_Low[c] is read again.
Load_raw_High_LowSlot(ee, c) == EEPROM_get(ee, 1 + 2 * FloatSize + 2 * FloatSize * c)

Load_raw_High(ee, c) == EEPROM_get(ee, 1 + 3 * FloatSize + 2 * FloatSize * c)

setup(Outcomes) ==
  /\ pc = "setup"
  /\ pins' = [c \in Channels |-> "LOW"]
  /\ \E ok \in Outcomes : setup_successful' = ok
  /\ IF eeprom[0] = 1
       THEN /\ calibrated' = TRUE
            /\ ref_Low' = Load_ref_Low(eeprom)
            /\ ref_High' = Load_ref_High(eeprom)
            /\ raw_Low' = [c \in Channels |->
                             IF c < SetupLoadCount THEN Load_raw_Low(eeprom, c)
                             ELSE raw_Low[c]]
            /\ raw_High' = [c \in Channels |->
                              IF c < SetupLoadCount THEN Load_raw_High(eeprom, c)
                              ELSE raw_High[c]]
            /\ eeAddr' = 1 + 2 * FloatSize + 2 * FloatSize * SetupLoadCount
            /\ mosfetRef' = SetupLoadCount
            /\ refsPublished' = Append(refsPublished,
                                       <<Load_ref_Low(eeprom), Load_ref_High(eeprom)>>)
       ELSE UNCHANGED <<calVars, eeAddr, mosfetRef, refsPublished>>
  /\ torn' = FALSE
  /\ eeReads' = IF eeprom[0] = 1 THEN 0 .. (eeAddr' - 1) ELSE {0}
  /\ UNCHANGED <<scanLog, pubCount, cal_result, publishedFrom, calAfterCycle>>
  /\ pc' = "booted"
  /\ UNCHANGED <<eeprom, irqFlag, adc, adcMode, calArgs, loopVars, pubVars,
                 histCmd, outstanding>>

(***************************************************************************)
(* cal_thermistor(ref_temp, tempNum), dispatched from check_brokers().     *)
(***************************************************************************)
CmdName(t) == IF t = 1 THEN "cal1" ELSE "cal2"

\* Variant of Cal_Mode: cal_thermistor does not select the input mode.
Cal_Mode_Kept(m) == m

\* setThermistorMuxRead() at the start of cal_thermistor.
Cal_Mode(m) == "mux"

Cal_Begin(Refs) ==
  /\ pc = "loop"
  /\ \E r \in Refs, t \in {1, 2} :
       /\ ref_temp' = r
       /\ tempNum' = t
       /\ hCmd' = CmdName(t)
  /\ eeAddr' = 1
  /\ irqFlag' = 0
  /\ adcMode' = Cal_Mode(adcMode)
  /\ cal_mosfetRef' = 0
  /\ pc' = "c_select"
  /\ hPrev' = IF hDone THEN hCmd ELSE "none"
  /\ hDone' = FALSE
  /\ snap' = ZeroCalState
  /\ scanLog' = <<>>
  /\ cal_result' = "none"
  /\ calAfterCycle' = (adcMode = "internal")
  /\ UNCHANGED <<eeprom, calVars, mosfetRef, setup_successful, pins, adc,
                 loopVars, pubVars, refsPublished, capLow, capHigh, torn, pubCount,
                 eeReads, publishedFrom,
                 outstanding>>

Cal_Select ==
  /\ pc = "c_select"
  /\ pins' = Select(pins, cal_mosfetRef)
  /\ adc' = "busy"
  /\ scanLog' = Append(scanLog, cal_mosfetRef)
  /\ pc' = "c_wait"
  /\ UNCHANGED <<eeprom, calVars, eeAddr, mosfetRef, irqFlag, setup_successful,
                 adcMode, calArgs, loopVars, pubVars, refsPublished, histCmd,
                 torn, pubCount, cal_result, eeReads, publishedFrom, calAfterCycle,
                 outstanding>>

Cal_Wait == WaitExit("c_wait", "c_clear")

Cal_ClearFlag == ClearFlag("c_clear", "c_read")

\* Variant of Cal_Store: the low-point pass also stores the reference
\* temperature as the high reference.
Cal_Store_BothRefs(raw_temp) ==
  IF tempNum = 1
    THEN /\ ref_Low' = ref_temp
         /\ raw_Low' = [raw_Low EXCEPT ![cal_mosfetRef] = raw_temp]
         /\ ref_High' = ref_temp
         /\ UNCHANGED raw_High
    ELSE /\ ref_High' = ref_temp
         /\ raw_High' = [raw_High EXCEPT ![cal_mosfetRef] = raw_temp]
         /\ UNCHANGED <<ref_Low, raw_Low>>

\* if (tempNum == 1) { ref_Low ...; raw_Low[mosfetRef] ... }
\* else if (tempNum == 2) { ref_High ...; raw_High[mosfetRef] ... }
Cal_Store(raw_temp) ==
  IF tempNum = 1
    THEN /\ ref_Low' = ref_temp
         /\ raw_Low' = [raw_Low EXCEPT ![cal_mosfetRef] = raw_temp]
         /\ UNCHANGED <<ref_High, raw_High>>
    ELSE IF tempNum = 2
      THEN /\ ref_High' = ref_temp
           /\ raw_High' = [raw_High EXCEPT ![cal_mosfetRef] = raw_temp]
           /\ UNCHANGED <<ref_Low, raw_Low>>
      ELSE UNCHANGED <<ref_Low, ref_High, raw_Low, raw_High>>

Cal_Read(Raws) ==
  /\ pc = "c_read"
  /\ \E raw_temp \in read_ADCDATA(Raws) : Cal_Store(raw_temp)
  /\ adc' = "idle"
  /\ pins' = Deselect(pins, cal_mosfetRef)
  /\ pc' = IF eeAddr = 1 THEN "c_put_refLow" ELSE "c_put_rawLow"
  /\ UNCHANGED <<eeprom, calibrated, eeAddr, mosfetRef, irqFlag, setup_successful,
                 adcMode, calArgs, loopVars, pubVars, refsPublished, histCmd,
                 torn, runHist, outstanding>>

Cal_Put(from, to, f) ==
  /\ pc = from
  /\ eeprom' = EEPROM_put(eeprom, eeAddr, f)
  /\ eeAddr' = eeAddr + FloatSize
  /\ pc' = to
  /\ UNCHANGED <<calVars, mosfetRef, irqFlag, setup_successful, pins, adc, adcMode,
                 ref_temp, tempNum, loopVars, pubVars, refsPublished, histCmd,
                 torn, runHist, outstanding>>

Cal_PutRefLow ==
  Cal_Put("c_put_refLow", "c_put_refHigh", ref_Low) /\ UNCHANGED cal_mosfetRef

Cal_PutRefHigh ==
  Cal_Put("c_put_refHigh", "c_put_rawLow", ref_High) /\ UNCHANGED cal_mosfetRef

Cal_PutRawLow ==
  Cal_Put("c_put_rawLow", "c_put_rawHigh", raw_Low[cal_mosfetRef])
    /\ UNCHANGED cal_mosfetRef

Cal_PutRawHigh ==
  /\ Cal_Put("c_put_rawHigh",
             IF cal_mosfetRef + 1 < NUMBER_OF_THERMISTORS THEN "c_select"
             ELSE "c_finish",
             raw_High[cal_mosfetRef])
  /\ cal_mosfetRef' = cal_mosfetRef + 1

\* Variant of CommittedFlag: the flag byte is not written.
CommittedFlag_Skipped(ee) == ee

\* EEPROM.write(0, 0x01) at the end of the point-2 pass.
CommittedFlag(ee) == EEPROM_write(ee, 0, 1)

Cal_Finish ==
  /\ pc = "c_finish"
  /\ IF tempNum = 2
       THEN /\ eeprom' = CommittedFlag(eeprom)
            /\ calibrated' = TRUE
            /\ snap' = [CalState EXCEPT !.calibrated = TRUE]
            /\ capHigh' = capLow
            /\ UNCHANGED capLow
       ELSE /\ capLow' = TRUE
            /\ UNCHANGED <<eeprom, calibrated, snap, capHigh>>
  /\ hDone' = TRUE
  /\ calAfterCycle' = FALSE
  /\ cal_result' = IF tempNum = 2 THEN "true" ELSE "false"
  /\ ref_temp' = 0
  /\ tempNum' = 0
  /\ cal_mosfetRef' = 0
  /\ pc' = "loop"
  /\ UNCHANGED <<ref_Low, ref_High, raw_Low, raw_High, eeAddr, mosfetRef, irqFlag,
                 setup_successful, pins, adc, adcMode, loopVars, pubVars,
                 refsPublished, hCmd, hPrev, torn, scanLog, pubCount, eeReads,
                 publishedFrom, outstanding>>

(***************************************************************************)
(* clear_cal_data(), dispatched from check_brokers().                      *)
(***************************************************************************)
\* Variant of ClearedFlag: the flag byte is not written.
ClearedFlag_Skipped(ee) == ee

\* EEPROM.write(0, 0x00);
ClearedFlag(ee) == EEPROM_write(ee, 0, 0)

Clear_Flag ==
  /\ pc = "loop"
  /\ eeprom' = ClearedFlag(eeprom)
  /\ eeAddr' = 1
  /\ mosfetRef' = 0
  /\ pc' = "x_refLow"
  /\ hPrev' = IF hDone THEN hCmd ELSE "none"
  /\ hCmd' = "clear"
  /\ hDone' = FALSE
  /\ capLow' = FALSE
  /\ capHigh' = FALSE
  /\ snap' = ZeroCalState
  /\ UNCHANGED <<calVars, irqFlag, setup_successful, pins, adc, adcMode, calArgs,
                 loopVars, pubVars, refsPublished, torn, runHist, outstanding>>

Clear_Write(from, to) ==
  /\ pc = from
  /\ eeprom' = EEPROM_write(eeprom, eeAddr, 0)
  /\ eeAddr' = eeAddr + FloatSize
  /\ pc' = to
  /\ UNCHANGED <<calVars, irqFlag, setup_successful, pins, adc, adcMode, calArgs,
                 loopVars, pubVars, refsPublished, histCmd, torn, runHist, outstanding>>

Clear_RefLow == Clear_Write("x_refLow", "x_refHigh") /\ UNCHANGED mosfetRef

Clear_RefHigh == Clear_Write("x_refHigh", "x_rawLow") /\ UNCHANGED mosfetRef

Clear_RawLow == Clear_Write("x_rawLow", "x_rawHigh") /\ UNCHANGED mosfetRef

Clear_RawHigh ==
  /\ Clear_Write("x_rawHigh",
                 IF 2 * (mosfetRef + 1) < NUMBER_OF_THERMISTORS * 2 THEN "x_rawLow"
                 ELSE "x_mem")
  /\ mosfetRef' = mosfetRef + 1

Clear_Memory ==
  /\ pc = "x_mem"
  /\ ref_Low' = 0
  /\ ref_High' = 0
  /\ raw_Low' = ZeroArray
  /\ raw_High' = ZeroArray
  /\ mosfetRef' = NUMBER_OF_THERMISTORS
  /\ calibrated' = FALSE
  /\ hDone' = TRUE
  /\ pc' = "loop"
  /\ UNCHANGED <<eeprom, eeAddr, irqFlag, setup_successful, pins, adc, adcMode,
                 calArgs, loopVars, pubVars, refsPublished, hCmd, hPrev, capLow,
                 capHigh, snap, torn, runHist, outstanding>>

(***************************************************************************)
(* loop(): one acquisition cycle per call.                                 *)
(***************************************************************************)
\* loop() is entered (after setup(), or after the previous cycle): locals
\* are zero, check_brokers() runs and may dispatch commands.
loop_entry ==
  /\ pc \in {"booted", "idle"}
  /\ avgCount' = 0
  /\ thermistor_temp' = ZeroArray
  /\ ADC_internal_temp' = 0
  /\ recur_temp' = ZeroArray
  /\ recur_internal' = 0
  /\ published' = ZeroArray
  /\ publishedInternal' = 0
  /\ scanLog' = <<>>
  /\ pubCount' = 0
  /\ cal_result' = "none"
  /\ eeReads' = {}
  /\ publishedFrom' = ZeroArray
  /\ UNCHANGED calAfterCycle
  /\ pc' = "loop"
  /\ UNCHANGED <<eeprom, calVars, eeAddr, mosfetRef, irqFlag, setup_successful,
                 pins, adc, adcMode, calArgs, refsPublished, histCmd, torn,
                 outstanding>>

\* First pass begins: setThermistorMuxRead(), mosfetRef = 0.
Loop_Begin ==
  /\ pc = "loop"
  /\ adcMode' = "mux"
  /\ mosfetRef' = 0
  /\ scanLog' = <<>>
  /\ pc' = "l_select"
  /\ UNCHANGED <<eeprom, calVars, eeAddr, irqFlag, setup_successful, pins, adc,
                 calArgs, loopVars, pubVars, refsPublished, histCmd, torn, pubCount,
                 cal_result, eeReads, publishedFrom, calAfterCycle,
                 outstanding>>

Loop_Select ==
  /\ pc = "l_select"
  /\ pins' = Select(pins, mosfetRef)
  /\ adc' = "busy"
  /\ scanLog' = Append(scanLog, mosfetRef)
  /\ pc' = "l_wait"
  /\ UNCHANGED <<eeprom, calVars, eeAddr, mosfetRef, irqFlag, setup_successful,
                 adcMode, calArgs, loopVars, pubVars, refsPublished, histCmd,
                 torn, pubCount, cal_result, eeReads, publishedFrom, calAfterCycle,
                 outstanding>>

Loop_Wait == WaitExit("l_wait", "l_clear")

Loop_ClearFlag == ClearFlag("l_clear", "l_read")

Loop_Read(Raws) ==
  /\ pc = "l_read"
  /\ \E raw \in read_ADCDATA(Raws) :
       /\ thermistor_temp' = [thermistor_temp EXCEPT
                                ![mosfetRef] = RunningUpdate(thermistor_temp[mosfetRef], raw)]
       /\ recur_temp' = [recur_temp EXCEPT
                           ![mosfetRef] = Recurrence(avgCount + 1,
                 recur_temp[mosfetRef], raw)]
  /\ adc' = "idle"
  /\ pins' = Deselect(pins, mosfetRef)
  /\ mosfetRef' = mosfetRef + 1
  /\ pc' = IF mosfetRef + 1 < NUMBER_OF_THERMISTORS THEN "l_select" ELSE "i_start"
  /\ UNCHANGED <<eeprom, calVars, eeAddr, irqFlag, setup_successful, adcMode,
                 calArgs, avgCount, ADC_internal_temp, recur_internal, pubVars,
                 refsPublished, histCmd, torn, runHist, outstanding>>

\* setADCInternalTempRead(); delay(1); start_conversion();
Int_Start ==
  /\ pc = "i_start"
  /\ adcMode' = "internal"
  /\ adc' = "busy"
  /\ scanLog' = Append(scanLog, -1)
  /\ pc' = "i_wait"
  /\ UNCHANGED <<eeprom, calVars, eeAddr, mosfetRef, irqFlag, setup_successful,
                 pins, calArgs, loopVars, pubVars, refsPublished, histCmd, torn,
                 pubCount, cal_result, eeReads, publishedFrom, calAfterCycle,
                 outstanding>>

Int_Wait == WaitExit("i_wait", "i_clear")

Int_ClearFlag == ClearFlag("i_clear", "i_read")

\* Variant of MorePasses: one pass too many.
MorePasses_OneMore(n) == n <= PassCount

\* while (avgCount < 5)
MorePasses(n) == n < PassCount

Int_Read(Raws) ==
  /\ pc = "i_read"
  /\ \E raw \in read_ADCDATA(Raws) :
       /\ ADC_internal_temp' = RunningUpdate(ADC_internal_temp, raw)
       /\ recur_internal' = Recurrence(avgCount + 1, recur_internal, raw)
  /\ adc' = "idle"
  /\ avgCount' = avgCount + 1
  /\ IF MorePasses(avgCount + 1)
       THEN /\ adcMode' = "mux"
            /\ mosfetRef' = 0
            /\ pc' = "l_select"
       ELSE /\ pc' = "l_publish"
            /\ UNCHANGED <<adcMode, mosfetRef>>
  /\ UNCHANGED <<eeprom, calVars, eeAddr, irqFlag, setup_successful, pins, calArgs,
                 thermistor_temp, recur_temp, pubVars, refsPublished, histCmd,
                 torn, runHist, outstanding>>

\* The mapping of the calibrated branch, publish_data(), and the return.
Loop_Publish ==
  /\ pc = "l_publish"
  /\ published' =
       IF calibrated
         THEN [c \in Channels |->
                 Mapping(thermistor_temp[c], raw_Low[c], raw_High[c], ref_Low, ref_High)]
         ELSE thermistor_temp
  /\ publishedInternal' = ADC_internal_temp
  /\ publishedFrom' = thermistor_temp
  /\ pubCount' = pubCount + 1
  /\ mosfetRef' = NUMBER_OF_THERMISTORS
  /\ avgCount' = 0
  /\ thermistor_temp' = ZeroArray
  /\ ADC_internal_temp' = 0
  /\ recur_temp' = ZeroArray
  /\ recur_internal' = 0
  /\ pc' = "idle"
  /\ UNCHANGED <<eeprom, calVars, eeAddr, irqFlag, setup_successful, pins, adc,
                 adcMode, calArgs, refsPublished, histCmd, torn, scanLog, cal_result,
                 eeReads, calAfterCycle, outstanding>>

(***************************************************************************)
(* Power loss and restart: RAM, lines and converter are reset, the EEPROM  *)
(* keeps its bytes.                                                        *)
(***************************************************************************)
CalPositions == {"c_select", "c_wait", "c_clear", "c_read", "c_put_refLow",
                 "c_put_refHigh", "c_put_rawLow", "c_put_rawHigh", "c_finish"}

ClearPositions == {"x_refLow", "x_refHigh", "x_rawLow", "x_rawHigh", "x_mem"}

LoopPositions == {"l_select", "l_wait", "l_clear", "l_read", "i_start", "i_wait",
                  "i_clear", "i_read", "l_publish"}

\* cal_thermistor has persisted the pair of some channel but not of all.
CalPartlyWritten ==
  /\ pc \in CalPositions \ {"c_finish"}
  /\ cal_mosfetRef >= 1 \/ pc = "c_put_rawHigh"

PowerLoss ==
  /\ pc # "setup"
  /\ pc' = "setup"
  /\ torn' = CalPartlyWritten
  /\ calibrated' = FALSE
  /\ ref_Low' = 0
  /\ ref_High' = 0
  /\ raw_Low' = ZeroArray
  /\ raw_High' = ZeroArray
  /\ eeAddr' = 0
  /\ mosfetRef' = 0
  /\ irqFlag' = 0
  /\ setup_successful' = FALSE
  /\ pins' = [c \in Channels |-> "Z"]
  /\ adc' = "idle"
  /\ adcMode' = "none"
  /\ ref_temp' = 0
  /\ tempNum' = 0
  /\ cal_mosfetRef' = 0
  /\ avgCount' = 0
  /\ thermistor_temp' = ZeroArray
  /\ ADC_internal_temp' = 0
  /\ recur_temp' = ZeroArray
  /\ recur_internal' = 0
  /\ published' = ZeroArray
  /\ publishedInternal' = 0
  /\ refsPublished' = <<>>
  /\ outstanding' = 0
  /\ scanLog' = <<>>
  /\ pubCount' = 0
  /\ cal_result' = "none"
  /\ eeReads' = {}
  /\ publishedFrom' = ZeroArray
  /\ calAfterCycle' = FALSE
  /\ UNCHANGED <<eeprom, histCmd>>

(***************************************************************************)
(* Specifications.                                                         *)
(***************************************************************************)
\* The whole system: setup, acquisition cycles, commands, power loss.
SysRefs == {Fl(100)}
SysRaws == {Fl(100)}
SysOutcomes == BOOLEAN

Next ==
  \/ setup(SysOutcomes)
  \/ loop_entry
  \/ Cal_Begin(SysRefs)
  \/ Cal_Select
  \/ Cal_Wait
  \/ Cal_ClearFlag
  \/ Cal_Read(SysRaws)
  \/ Cal_PutRefLow
  \/ Cal_PutRefHigh
  \/ Cal_PutRawLow
  \/ Cal_PutRawHigh
  \/ Cal_Finish
  \/ Clear_Flag
  \/ Clear_RefLow
  \/ Clear_RefHigh
  \/ Clear_RawLow
  \/ Clear_RawHigh
  \/ Clear_Memory
  \/ Loop_Begin
  \/ Loop_Select
  \/ Loop_Wait
  \/ Loop_ClearFlag
  \/ Loop_Read(SysRaws)
  \/ Int_Start
  \/ Int_Wait
  \/ Int_ClearFlag
  \/ Int_Read(SysRaws)
  \/ Loop_Publish
  \/ ADC_Done
  \/ PowerLoss

Spec == Init /\ [][Next]_vars

\* The whole system with a converter that may fail to complete a conversion.
NextStuck == Next \/ ADC_Stuck

SpecStuck == Init /\ [][NextStuck]_vars

\* Calibration and persistence: the commands, power loss and startup, with
\* two reference temperatures and two raw readings.
CalRefs == {Fl(0), Fl(100)}
CalRaws == {Fl(100), Fl(200)}
CalOutcomes == {TRUE}

NextCal ==
  \/ setup(CalOutcomes)
  \/ loop_entry
  \/ Cal_Begin(CalRefs)
  \/ Cal_Select
  \/ Cal_Wait
  \/ Cal_ClearFlag
  \/ Cal_Read(CalRaws)
  \/ Cal_PutRefLow
  \/ Cal_PutRefHigh
  \/ Cal_PutRawLow
  \/ Cal_PutRawHigh
  \/ Cal_Finish
  \/ Clear_Flag
  \/ Clear_RefLow
  \/ Clear_RefHigh
  \/ Clear_RawLow
  \/ Clear_RawHigh
  \/ Clear_Memory
  \/ ADC_Done
  \/ PowerLoss

SpecCal == Init /\ [][NextCal]_vars

\* Acquisition cycles alone, with raw readings that include 0.0.
AvgRaws == {Fl(0), Fl(10)}
AvgOutcomes == {TRUE}

NextAvg ==
  \/ setup(AvgOutcomes)
  \/ loop_entry
  \/ Loop_Begin
  \/ Loop_Select
  \/ Loop_Wait
  \/ Loop_ClearFlag
  \/ Loop_Read(AvgRaws)
  \/ Int_Start
  \/ Int_Wait
  \/ Int_ClearFlag
  \/ Int_Read(AvgRaws)
  \/ Loop_Publish
  \/ ADC_Done

SpecAvg == Init /\ [][NextAvg]_vars

\* Commands, acquisition cycles, power loss and startup, with two reference
\* temperatures.
QuietRefs == {Fl(0), Fl(100)}
QuietCalRaws == {Fl(200)}
QuietRaws == {Fl(150)}
QuietOutcomes == {TRUE}

NextQuiet ==
  \/ setup(QuietOutcomes)
  \/ loop_entry
  \/ Cal_Begin(QuietRefs)
  \/ Cal_Select
  \/ Cal_Wait
  \/ Cal_ClearFlag
  \/ Cal_Read(QuietCalRaws)
  \/ Cal_PutRefLow
  \/ Cal_PutRefHigh
  \/ Cal_PutRawLow
  \/ Cal_PutRawHigh
  \/ Cal_Finish
  \/ Clear_Flag
  \/ Clear_RefLow
  \/ Clear_RefHigh
  \/ Clear_RawLow
  \/ Clear_RawHigh
  \/ Clear_Memory
  \/ Loop_Begin
  \/ Loop_Select
  \/ Loop_Wait
  \/ Loop_ClearFlag
  \/ Loop_Read(QuietRaws)
  \/ Int_Start
  \/ Int_Wait
  \/ Int_ClearFlag
  \/ Int_Read(QuietRaws)
  \/ Loop_Publish
  \/ ADC_Done
  \/ PowerLoss

SpecQuiet == Init /\ [][NextQuiet]_vars

\* Acquisition cycles alone, with a converter that completes every
\* conversion it is given and a main flow that keeps running.
LiveRaws == {Fl(10), Fl(20)}
LiveOutcomes == {TRUE}

MainFlow ==
  \/ setup(LiveOutcomes)
  \/ loop_entry
  \/ Loop_Begin
  \/ Loop_Select
  \/ Loop_Wait
  \/ Loop_ClearFlag
  \/ Loop_Read(LiveRaws)
  \/ Int_Start
  \/ Int_Wait
  \/ Int_ClearFlag
  \/ Int_Read(LiveRaws)
  \/ Loop_Publish

NextLive == MainFlow \/ ADC_Done

SpecLive == Init /\ [][NextLive]_vars /\ WF_vars(MainFlow) /\ WF_vars(ADC_Done)

\* Calibration followed by acquisition cycles: two raw readings at the
\* calibration points, one reading in the cycles.
MapRefs == {Fl(0), Fl(100)}
MapCalRaws == {Fl(100), Fl(200)}
MapRaws == {Fl(150)}
MapOutcomes == {TRUE}

NextMap ==
  \/ setup(MapOutcomes)
  \/ loop_entry
  \/ Cal_Begin(MapRefs)
  \/ Cal_Select
  \/ Cal_Wait
  \/ Cal_ClearFlag
  \/ Cal_Read(MapCalRaws)
  \/ Cal_PutRefLow
  \/ Cal_PutRefHigh
  \/ Cal_PutRawLow
  \/ Cal_PutRawHigh
  \/ Cal_Finish
  \/ Clear_Flag
  \/ Clear_RefLow
  \/ Clear_RefHigh
  \/ Clear_RawLow
  \/ Clear_RawHigh
  \/ Clear_Memory
  \/ Loop_Begin
  \/ Loop_Select
  \/ Loop_Wait
  \/ Loop_ClearFlag
  \/ Loop_Read(MapRaws)
  \/ Int_Start
  \/ Int_Wait
  \/ Int_ClearFlag
  \/ Int_Read(MapRaws)
  \/ Loop_Publish
  \/ ADC_Done

SpecMap == Init /\ [][NextMap]_vars

\* Calibration followed by acquisition cycles in which a channel reads the
\* same value in every pass: the running value handed to the mapping is
\* that reading.
PointRefs == {Fl(0), Fl(100)}
PointCalRaws == {Fl(100), Fl(200)}
PointRaws == {Fl(100), Fl(150), Fl(200)}
PointIntRaws == {Fl(25)}
PointOutcomes == {TRUE}

SteadyRaws ==
  IF thermistor_temp[mosfetRef] = 0 THEN PointRaws ELSE {thermistor_temp[mosfetRef]}

NextPoint ==
  \/ setup(PointOutcomes)
  \/ loop_entry
  \/ Cal_Begin(PointRefs)
  \/ Cal_Select
  \/ Cal_Wait
  \/ Cal_ClearFlag
  \/ Cal_Read(PointCalRaws)
  \/ Cal_PutRefLow
  \/ Cal_PutRefHigh
  \/ Cal_PutRawLow
  \/ Cal_PutRawHigh
  \/ Cal_Finish
  \/ Loop_Begin
  \/ Loop_Select
  \/ Loop_Wait
  \/ Loop_ClearFlag
  \/ Loop_Read(SteadyRaws)
  \/ Int_Start
  \/ Int_Wait
  \/ Int_ClearFlag
  \/ Int_Read(PointIntRaws)
  \/ Loop_Publish
  \/ ADC_Done

SpecPoint == Init /\ [][NextPoint]_vars

(***************************************************************************)
(* Properties.                                                             *)
(***************************************************************************)
Asserted == {c \in Channels : pins[c] = "HIGH"}

WaitPositions == {"c_wait", "l_wait", "i_wait"}
AfterWaitPositions == {"c_clear", "l_clear", "i_clear"}
ReadPositions == {"c_read", "l_read", "i_read"}
StartPositions == {"c_select", "l_select", "i_start"}

\* The persisted fields, decoded from the layout: flag at 0, ref_Low,
\* ref_High, then raw_Low[c], raw_High[c] per channel.
Persisted ==
  [calibrated |-> eeprom[0] = 1,
   ref_Low |-> EEPROM_get(eeprom, RefLowAddr),
   ref_High |-> EEPROM_get(eeprom, RefHighAddr),
   raw_Low |-> [c \in Channels |-> EEPROM_get(eeprom, RawLowAddr(c))],
   raw_High |-> [c \in Channels |-> EEPROM_get(eeprom, RawHighAddr(c))]]

\* C1: at a startup that follows a power loss which cut cal_thermistor
\* after it had persisted the values of some but not all channels, the
\* persisted flag byte is not 0x01.
C1_NoPartialTrueFlag == (pc = "setup" /\ torn) => eeprom[0] # 1

\* C2: calibrated (in memory, or the persisted flag being 0x01) implies
\* that since the last clear a complete point-1 capture and after it a
\* complete point-2 capture have taken place.
C2_CalibratedImpliesCaptured ==
  (calibrated \/ eeprom[0] = 1) => (capLow /\ capHigh)

\* C3: every running value of the cycle, of the channels and of the
\* internal temperature, is the value of the recurrence value(1) = raw(1),
\* value(p) = (value(p-1) + raw(p)) / 2, decided by the pass index.
C3_RunningValueRecurrence ==
  thermistor_temp = recur_temp /\ ADC_internal_temp = recur_internal

C5_ReadAfterFreshReady ==
  /\ pc \in ReadPositions => adc = "ready"
  /\ pc \in StartPositions => (irqFlag = 0 /\ adc = "idle")
  /\ (pc \in WaitPositions /\ irqFlag = 1) => adc = "ready"

C5_Witness == pc = "l_read" /\ adc = "ready" /\ avgCount = 1 /\ mosfetRef = 1

\* C6: once setup() has driven the lines low at most one selector line is
\* asserted, it is the line of the channel being converted, and no line is
\* asserted between calls or during the internal-temperature conversion.
C6_OneSelectorLine ==
  pc # "setup" =>
    /\ Cardinality(Asserted) <= 1
    /\ \A c \in Asserted :
         \/ pc \in {"l_wait", "l_clear", "l_read"} /\ c = mosfetRef
         \/ pc \in {"c_wait", "c_clear", "c_read"} /\ c = cal_mosfetRef
    /\ (adc = "busy" /\ pc = "l_wait") => Asserted = {mosfetRef}
    /\ (adc = "busy" /\ pc = "c_wait") => Asserted = {cal_mosfetRef}
    /\ pc \in {"booted", "loop", "idle", "i_start", "i_wait", "i_clear", "i_read",
               "l_publish"} => Asserted = {}

C6_Witness ==
  pc = "c_wait" /\ cal_mosfetRef = 1 /\ pins[1] = "HIGH" /\ adc = "busy"

\* C7: once clear_cal_data() has returned, every persisted byte of the
\* flag and of the fields is zero and the in-memory state is all zero.
C7_ClearZeroesEverything ==
  (hCmd = "clear" /\ hDone /\ pc = "loop") =>
    /\ \A a \in EEAddrs : eeprom[a] = 0
    /\ CalState = ZeroCalState

\* C8: the startup after a completed calibrate(point=1), calibrate(point=2)
\* loads the state the memory held when the flag was set, and the persisted
\* layout holds each of its fields at the field's offset.
C8_RoundTrip ==
  (pc = "booted" /\ hCmd = "cal2" /\ hDone /\ hPrev = "cal1") =>
    (CalState = snap /\ Persisted = snap)

C8_Witness ==
  /\ pc = "booted" /\ hCmd = "cal2" /\ hDone /\ hPrev = "cal1"
  /\ calibrated
  /\ ref_Low = Fl(0) /\ ref_High = Fl(100)
  /\ raw_Low[1] = Fl(100) /\ raw_High[1] = Fl(200)

\* C9: the startup after clear_cal_data() has written the flag, whether
\* it completed or was cut by a power loss, loads calibrated = false and
\* zero in every field.
C9_ClearThenLoad ==
  (pc = "booted" /\ hCmd = "clear") => CalState = ZeroCalState

C9_Witness ==
  /\ pc = "booted" /\ hCmd = "clear" /\ ~hDone /\ hPrev = "cal2"
  /\ Persisted.raw_High[NUMBER_OF_THERMISTORS - 1] = Fl(200)

\* C10: no value passed to publish_data is infinite or NaN.
C10_NoNonFinitePublished ==
  pc = "idle" => \A c \in Channels : IsFinite(published[c])

\* C11: once setup() has seen a bring-up collaborator fail, no acquisition
\* starts: no selector line is asserted, no conversion is started and
\* publish_data is not called.
C11_FailedSetupNoAcquisition ==
  (pc # "setup" /\ ~setup_successful) =>
    (Asserted = {} /\ scanLog = <<>> /\ pubCount = 0)

\* C14: at the restart that follows a power loss after a completed
\* calibrate(point = 1) and before any later command, the loaded state has
\* calibrated = FALSE.
C14_LowPointRestartUncalibrated ==
  (pc = "booted" /\ hCmd = "cal1" /\ hDone) => ~calibrated

\* C12: a conversion wait on a converter that never raises ready can be
\* left all the same (the wait is bounded): the main flow is not held at
\* the wait.
C12_StuckWaitCanEnd ==
  (pc \in WaitPositions /\ adc = "stuck") =>
    ENABLED (Cal_Wait \/ Loop_Wait \/ Int_Wait)

ChannelOrder == [i \in 1 .. NUMBER_OF_THERMISTORS |-> i - 1]

\* A step of cal_thermistor called with point t (the call itself included,
\* a power loss excluded).
CalStepOf(t) ==
  /\ pc \in CalPositions \union {"loop"}
  /\ pc' \in CalPositions \union {"loop"}
  /\ (tempNum = t \/ tempNum' = t)

\* C15: cal_thermistor with point 1 starts exactly one conversion per
\* channel, returns false and leaves calibrated, ref_High, raw_High and the
\* persisted flag byte as they were; with point 2 it leaves ref_Low and
\* raw_Low as they were.
C15_CalFrame ==
  /\ [](pc = "c_finish" => scanLog = ChannelOrder)
  /\ [][CalStepOf(1) =>
          /\ UNCHANGED <<calibrated, ref_High, raw_High>>
          /\ eeprom'[0] = eeprom[0]
          /\ (pc = "c_finish" => cal_result' = "false")]_vars
  /\ [][CalStepOf(2) => UNCHANGED <<ref_Low, raw_Low>>]_vars

C15_Witness ==
  /\ pc = "loop" /\ hCmd = "cal1" /\ hDone /\ cal_result = "false"
  /\ scanLog = ChannelOrder
  /\ calibrated /\ eeprom[0] = 1
  /\ ref_Low = Fl(0) /\ ref_High = Fl(100)
  /\ raw_Low = [c \in Channels |-> Fl(100)]
  /\ raw_High = [c \in Channels |-> Fl(200)]

ChannelStartPositions == {"c_select", "l_select"}
ChannelConvertPositions == {"c_wait", "c_clear", "c_read", "l_wait", "l_clear", "l_read"}
InternalConvertPositions == {"i_wait", "i_clear", "i_read"}

\* C17: a conversion of a thermistor channel, in loop() or in
\* cal_thermistor, is started and runs with the converter in mux mode, a
\* conversion of the internal temperature with the converter in internal
\* mode.
C17_ConversionMode ==
  /\ pc \in ChannelStartPositions \union ChannelConvertPositions => adcMode = "mux"
  /\ pc \in InternalConvertPositions => adcMode = "internal"

\* A calibration pass started after an acquisition cycle has completed.
C17_Witness ==
  /\ pc = "c_wait" /\ adc = "busy" /\ adcMode = "mux"
  /\ calAfterCycle

\* C18: setup() reads the flag byte and nothing else unless it is 0x01;
\* with another flag value calibrated and the fields stay zero and
\* publish_refs is not called; with 0x01 every field is loaded from its
\* slot and publish_refs is called once with the loaded references; setup()
\* writes nothing to the EEPROM.
C18_StartupGate ==
  /\ [](pc = "booted" =>
          IF eeprom[0] = 1
            THEN /\ CalState = Persisted
                 /\ calibrated
                 /\ eeReads = EEAddrs
                 /\ refsPublished = <<<<ref_Low, ref_High>>>>
            ELSE /\ CalState = ZeroCalState
                 /\ eeReads = {0}
                 /\ refsPublished = <<>>)
  /\ [][pc = "setup" => eeprom' = eeprom]_vars

C18_Witness ==
  /\ pc = "booted" /\ eeprom[0] = 1 /\ calibrated
  /\ eeReads = EEAddrs
  /\ refsPublished = <<<<Fl(0), Fl(100)>>>>
  /\ raw_Low = [c \in Channels |-> Fl(100)]
  /\ raw_High = [c \in Channels |-> Fl(200)]

\* Between calls: setup() has returned, or check_brokers() of loop() has no
\* command in progress, or loop() has returned.
QuiescentPositions == {"booted", "loop", "idle"}

\* A step of loop() past check_brokers(): the acquisition cycle, the
\* mapping and publish_data.
LoopStep == pc' \in LoopPositions \union {"idle"}

\* C19: between calls calibrated is TRUE exactly when the persisted flag
\* byte is 0x01, and then every persisted field equals the field in memory;
\* loop() changes neither the EEPROM nor a calibration field in memory.
C19_MemoryMatchesStorage ==
  /\ [](pc \in QuiescentPositions =>
          /\ calibrated <=> eeprom[0] = 1
          /\ calibrated => Persisted = CalState)
  /\ [][LoopStep => UNCHANGED <<eeprom, calVars>>]_vars

C19_Witness ==
  /\ pc = "idle" /\ pubCount = 1
  /\ calibrated /\ eeprom[0] = 1 /\ Persisted = CalState
  /\ ref_Low = Fl(0) /\ ref_High = Fl(100)
  /\ raw_High = [c \in Channels |-> Fl(200)]
  /\ refsPublished # <<>>

RECURSIVE Repeat(_, _)
Repeat(seq, n) == IF n = 0 THEN <<>> ELSE seq \o Repeat(seq, n - 1)

\* The conversions of one cycle: PassCount passes, each the channels in
\* index order and then the internal temperature (-1).
CycleOrder == Repeat(ChannelOrder \o <<-1>>, PassCount)

IsPrefix(s, t) == Len(s) <= Len(t) /\ SubSeq(t, 1, Len(s)) = s

\* C16: with a converter that completes every conversion, every loop()
\* call returns; it starts from zero running values, converts in PassCount
\* passes the channels in index order and then the internal temperature,
\* and calls publish_data once, after the last pass.
C16_CycleTerminates ==
  /\ [](pc = "loop" =>
          avgCount = 0 /\ thermistor_temp = ZeroArray /\ ADC_internal_temp = 0)
  /\ [](pc \in LoopPositions => (IsPrefix(scanLog, CycleOrder) /\ pubCount = 0))
  /\ [](pc = "l_publish" => scanLog = CycleOrder)
  /\ [](pc = "idle" => (scanLog = CycleOrder /\ pubCount = 1))
  /\ ((pc = "loop") ~> (pc = "idle"))

C16_Witness ==
  /\ pc = "idle" /\ pubCount = 1 /\ scanLog = CycleOrder
  /\ Len(scanLog) = PassCount * (NUMBER_OF_THERMISTORS + 1)
  /\ publishedFrom = [c \in Channels |-> Fl(15)]

====
